---- MODULE Spec2Model ----
(***************************************************************************)
(* Model of recipe_bot.py: the RecipeBot class (credential check, system   *)
(* prompt, get_ai_response, _get_fallback_response) and the Streamlit      *)
(* script main() that owns the session's message history.                  *)
(*                                                                         *)
(* Text is modelled as a sequence of words (strings); the characters of a  *)
(* word are given by Chars, so that str.lower() and the substring test     *)
(* `word in user_lower` are computed on characters as Python does.         *)
(***************************************************************************)
EXTENDS Integers, Sequences, FiniteSets

VARIABLES
    env_key,               \* os.environ["OPENAI_API_KEY"] of the process
    dotenv_key,            \* OPENAI_API_KEY in the .env file read by load_dotenv()
    client,                \* st.session_state.bot.client is not None
    system_prompt,         \* st.session_state.bot.system_prompt
    messages,              \* st.session_state.messages
    pc,                    \* position of the running script in main()
    prompt,                \* main's prompt, get_ai_response's user_message
    conversation_history,  \* get_ai_response's conversation_history argument
    request,               \* messages= of chat.completions.create, <<>> if none
    response,              \* main's response, <<>> while not yet returned
    st_error,              \* exception shown by st.error, "none" if none
    cleared                \* history: <<n>> after a clear that dropped n turns

vars == <<env_key, dotenv_key, client, system_prompt, messages, pc, prompt,
          conversation_history, request, response, st_error, cleared>>

----------------------------------------------------------------------------
(* Bounds *)

\* exchanges (user turn + assistant turn) a session holds before a clear
MaxExchanges == 2
\* words of an utterance given to _get_fallback_response on its own
MaxWords == 2

----------------------------------------------------------------------------
(* Characters and str.lower() *)

Upper == <<"A","B","C","D","E","F","G","H","I","J","K","L","M",
           "N","O","P","Q","R","S","T","U","V","W","X","Y","Z">>
Lower == <<"a","b","c","d","e","f","g","h","i","j","k","l","m",
           "n","o","p","q","r","s","t","u","v","w","x","y","z">>

Chars(w) ==
    CASE w = "pasta"      -> <<"p","a","s","t","a">>
      [] w = "Pasta"      -> <<"P","a","s","t","a">>
      [] w = "past"       -> <<"p","a","s","t">>
      [] w = "spaghetti"  -> <<"s","p","a","g","h","e","t","t","i">>
      [] w = "SPAGHETTI"  -> <<"S","P","A","G","H","E","T","T","I">>
      [] w = "noodles"    -> <<"n","o","o","d","l","e","s">>
      [] w = "chicken"    -> <<"c","h","i","c","k","e","n">>
      [] w = "Chicken"    -> <<"C","h","i","c","k","e","n">>
      [] w = "meat"       -> <<"m","e","a","t">>
      [] w = "MEAT"       -> <<"M","E","A","T">>
      [] w = "vegetarian" -> <<"v","e","g","e","t","a","r","i","a","n">>
      [] w = "vegan"      -> <<"v","e","g","a","n">>
      [] w = "Vegan"      -> <<"V","e","g","a","n">>
      [] w = "vegetables" -> <<"v","e","g","e","t","a","b","l","e","s">>
      [] w = "dessert"    -> <<"d","e","s","s","e","r","t">>
      [] w = "DESSERT"    -> <<"D","E","S","S","E","R","T">>
      [] w = "sweet"      -> <<"s","w","e","e","t">>
      [] w = "Sweet"      -> <<"S","w","e","e","t">>
      [] w = "sweetmeats" -> <<"s","w","e","e","t","m","e","a","t","s">>
      [] w = "cake"       -> <<"c","a","k","e">>
      [] w = "weather"    -> <<"w","e","a","t","h","e","r">>

RECURSIVE Text(_)
\* the characters of an utterance: its words joined by single spaces
Text(u) ==
    IF u = <<>> THEN <<>>
    ELSE IF Len(u) = 1 THEN Chars(u[1])
    ELSE Chars(u[1]) \o <<" ">> \o Text(Tail(u))

\* the lower-case letter of each upper-case letter
LowerOf ==
    [c \in {Upper[k] : k \in DOMAIN Upper} |->
        Lower[CHOOSE k \in DOMAIN Upper : Upper[k] = c]]

LowerChar(c) == IF c \in DOMAIN LowerOf THEN LowerOf[c] ELSE c

\* str.lower()
str_lower(s) == [i \in DOMAIN s |-> LowerChar(s[i])]

\* Python's `word in s` for strings: word is a contiguous substring of s
str_in(word, s) ==
    \E i \in 0..Len(s) :
        /\ i + Len(word) <= Len(s)
        /\ SubSeq(s, i + 1, i + Len(word)) = word

----------------------------------------------------------------------------
(* RecipeBot._get_fallback_response *)

PastaWords == {"pasta", "spaghetti", "noodles"}
MeatWords == {"chicken", "meat"}
VegWords == {"vegetarian", "vegan", "vegetables"}
DessertWords == {"dessert", "sweet", "cake"}

PastaReply == <<"Here's", "a", "simple", "pasta", "recipe">>
ChickenReply == <<"For", "a", "quick", "chicken", "dish">>
VeggieReply == <<"Try", "a", "veggie", "stir-fry">>
DessertReply == <<"Quick", "dessert", "idea">>
GenericReply == <<"I'm", "a", "recipe", "bot!">>

\* any(word in user_lower for word in words)
any_word_in(words, user_lower) ==
    \E word \in words : str_in(Chars(word), user_lower)

\* faulty variant: the meat check placed before the pasta check
_get_fallback_response_swapped(user_message) ==
    LET user_lower == str_lower(Text(user_message))
    IN  IF any_word_in(MeatWords, user_lower) THEN ChickenReply
        ELSE IF any_word_in(PastaWords, user_lower) THEN PastaReply
        ELSE IF any_word_in(VegWords, user_lower) THEN VeggieReply
        ELSE IF any_word_in(DessertWords, user_lower) THEN DessertReply
        ELSE GenericReply

_get_fallback_response(user_message) ==
    LET user_lower == str_lower(Text(user_message))
    IN  IF any_word_in(PastaWords, user_lower) THEN PastaReply
        ELSE IF any_word_in(MeatWords, user_lower) THEN ChickenReply
        ELSE IF any_word_in(VegWords, user_lower) THEN VeggieReply
        ELSE IF any_word_in(DessertWords, user_lower) THEN DessertReply
        ELSE GenericReply

----------------------------------------------------------------------------
(* Environment, RecipeBot.__init__ and _load_system_prompt *)

Unset == "<unset>"
EnvValues == {Unset, "", "sk-test"}
DotenvValues == {Unset, "sk-test"}

\* truth value of os.getenv("OPENAI_API_KEY"): None and "" are falsy
Truthy(v) == v # Unset /\ v # ""

\* load_dotenv() with its default override=False: a variable the process
\* environment already holds is kept, otherwise the file's value is set
load_dotenv(env, file) == IF env = Unset THEN file ELSE env

TemplatePrompt == <<"rendered", "recipe_bot_prompt.j2">>
DefaultPrompt == <<"You", "are", "a", "helpful", "recipe", "bot", "assistant.">>

\* template.render(...) on success, the built-in prompt on any exception
_load_system_prompt(template_ok) ==
    IF template_ok THEN TemplatePrompt ELSE DefaultPrompt

\* self.client is an OpenAI client iff the key is truthy at construction
RecipeBot_client(env) == Truthy(env)

----------------------------------------------------------------------------
(* RecipeBot.get_ai_response *)

Turn(role, content) == [role |-> role, content |-> content]

\* exceptions the try block can raise: the three raised by
\* chat.completions.create, and IndexError from response.choices[0]
ErrorKinds ==
    {"APIConnectionError", "AuthenticationError", "RateLimitError", "IndexError"}

\* completions the backend can return
BackendTexts == {<<"AI", "recipe", "one">>, <<"AI", "recipe", "two">>}

\* faulty variant: the credential re-read from the environment on each call
NoClient_recheck == ~Truthy(env_key)

\* `if not self.client`
NoClient == ~client

\* messages = [system] + [{role, content} for msg in history] + [user]
BuildMessages(prompt_text, history, user_message) ==
    <<Turn("system", prompt_text)>>
        \o [i \in DOMAIN history |->
                Turn(history[i].role, history[i].content)]
        \o <<Turn("user", user_message)>>

\* faulty variant: `except openai.OpenAIError`, which lets IndexError through
Caught_openai(e) == e \in {"APIConnectionError", "AuthenticationError", "RateLimitError"}

\* `except Exception`: every kind above is a subclass of Exception
Caught(e) == e \in ErrorKinds

\* faulty variant: the except branch returning str(e)
ExceptHandler_str(user_message, e) == <<e>>

\* the except branch's return value
ExceptHandler(user_message, e) == _get_fallback_response(user_message)

\* lines 50-52: no client, straight to the fallback
GetAiResponse_NoClient ==
    /\ pc = "get_ai_response"
    /\ NoClient
    /\ response' = _get_fallback_response(prompt)
    /\ pc' = "append"
    /\ UNCHANGED <<env_key, dotenv_key, client, system_prompt, messages,
                   prompt, conversation_history, request, st_error, cleared>>

\* faulty variant: the user turn appended to conversation_history itself
GetAiResponse_Create_mutating ==
    /\ pc = "get_ai_response"
    /\ ~NoClient
    /\ conversation_history' =
           Append(conversation_history, Turn("user", prompt))
    /\ request' = <<Turn("system", system_prompt)>> \o conversation_history'
    /\ pc' = "create"
    /\ UNCHANGED <<env_key, dotenv_key, client, system_prompt, messages,
                   prompt, response, st_error, cleared>>

\* lines 54-71: build the message list and call the backend
GetAiResponse_Create ==
    /\ pc = "get_ai_response"
    /\ ~NoClient
    /\ request' = BuildMessages(system_prompt, conversation_history, prompt)
    /\ pc' = "create"
    /\ UNCHANGED <<env_key, dotenv_key, client, system_prompt, messages,
                   prompt, conversation_history, response, st_error, cleared>>

\* line 73: the backend answered, its completion is returned verbatim
GetAiResponse_Success(text) ==
    /\ pc = "create"
    /\ response' = text
    /\ pc' = "append"
    /\ UNCHANGED <<env_key, dotenv_key, client, system_prompt, messages,
                   prompt, conversation_history, request, st_error, cleared>>

\* faulty variant: the client dropped after a failed call
GetAiResponse_Except_disable(e) ==
    /\ pc = "create"
    /\ st_error' = e
    /\ response' = ExceptHandler(prompt, e)
    /\ pc' = "append"
    /\ client' = FALSE
    /\ UNCHANGED <<env_key, dotenv_key, system_prompt, messages, cleared,
                   prompt, conversation_history, request>>

\* lines 66-77: create() or choices[0] raised e.  Caught: st.error and the
\* fallback reply.  Not caught: the exception leaves get_ai_response and
\* main(), so the script run ends without line 136.
GetAiResponse_Except(e) ==
    /\ pc = "create"
    /\ IF Caught(e)
       THEN /\ st_error' = e
            /\ response' = ExceptHandler(prompt, e)
            /\ pc' = "append"
            /\ UNCHANGED <<prompt, conversation_history, request, cleared>>
       ELSE /\ st_error' = "none"
            /\ response' = <<>>
            /\ pc' = "idle"
            /\ prompt' = <<>>
            /\ conversation_history' = <<>>
            /\ request' = <<>>
            /\ cleared' = <<>>
    /\ UNCHANGED <<env_key, dotenv_key, client, system_prompt, messages>>

----------------------------------------------------------------------------
(* main(): one script run per interaction *)

SessionUtterances ==
    {<<"Vegan", "SPAGHETTI">>, <<"sweetmeats">>, <<"DESSERT">>, <<"weather">>}

\* faulty variant: the whole list passed, current message included
HistoryArg_full(msgs) == msgs

\* st.session_state.messages[:-1]
HistoryArg(msgs) == SubSeq(msgs, 1, Len(msgs) - 1)

\* lines 9, 118-131: the user submits text u; the run appends the user turn
\* and calls get_ai_response(prompt, messages[:-1])
Submit(u) ==
    /\ pc = "idle"
    /\ Len(messages) < 2 * MaxExchanges
    /\ env_key' = load_dotenv(env_key, dotenv_key)
    /\ prompt' = u
    /\ messages' = Append(messages, Turn("user", u))
    /\ conversation_history' = HistoryArg(messages')
    /\ request' = <<>>
    /\ response' = <<>>
    /\ st_error' = "none"
    /\ pc' = "get_ai_response"
    /\ UNCHANGED <<dotenv_key, client, system_prompt, cleared>>

\* faulty variant: messages.insert(0, ...) in place of append
AppendResponse_front ==
    /\ pc = "append"
    /\ messages' = <<Turn("assistant", response)>> \o messages
    /\ pc' = "idle"
    /\ prompt' = <<>>
    /\ conversation_history' = <<>>
    /\ request' = <<>>
    /\ response' = <<>>
    /\ st_error' = "none"
    /\ cleared' = <<>>
    /\ UNCHANGED <<env_key, dotenv_key, client, system_prompt>>

\* lines 133-136: show the response and append the assistant turn; the run
\* ends and its locals are gone
AppendResponse ==
    /\ pc = "append"
    /\ messages' = Append(messages, Turn("assistant", response))
    /\ pc' = "idle"
    /\ prompt' = <<>>
    /\ conversation_history' = <<>>
    /\ request' = <<>>
    /\ response' = <<>>
    /\ st_error' = "none"
    /\ cleared' = <<>>
    /\ UNCHANGED <<env_key, dotenv_key, client, system_prompt>>

\* faulty variant: the button leaving the list as it is
ClearChatHistory_keep ==
    /\ pc = "idle"
    /\ env_key' = load_dotenv(env_key, dotenv_key)
    /\ messages' = messages
    /\ cleared' = <<Len(messages)>>
    /\ UNCHANGED <<dotenv_key, client, system_prompt, pc, prompt,
                   conversation_history, request, response, st_error>>

\* faulty variant: messages.pop() in place of the reset to []
ClearChatHistory_pop ==
    /\ pc = "idle"
    /\ env_key' = load_dotenv(env_key, dotenv_key)
    /\ messages' = IF messages = <<>> THEN <<>>
                   ELSE SubSeq(messages, 1, Len(messages) - 1)
    /\ cleared' = <<Len(messages)>>
    /\ UNCHANGED <<dotenv_key, client, system_prompt, pc, prompt,
                   conversation_history, request, response, st_error>>

\* lines 9, 146-148: the "Clear Chat History" button, then st.rerun()
ClearChatHistory ==
    /\ pc = "idle"
    /\ env_key' = load_dotenv(env_key, dotenv_key)
    /\ messages' = <<>>
    /\ cleared' = <<Len(messages)>>
    /\ UNCHANGED <<dotenv_key, client, system_prompt, pc, prompt,
                   conversation_history, request, response, st_error>>

\* the .env file is edited between script runs
EditDotenv(v) ==
    /\ pc = "idle"
    /\ v # dotenv_key
    /\ dotenv_key' = v
    /\ UNCHANGED <<env_key, client, system_prompt, messages, pc, prompt,
                   conversation_history, request, response, st_error, cleared>>

----------------------------------------------------------------------------
(* The session *)

\* after line 9 and the first run's lines 101-106: environment loaded, bot
\* constructed, history empty
Init ==
    /\ dotenv_key \in DotenvValues
    /\ \E os_env \in EnvValues : env_key = load_dotenv(os_env, dotenv_key)
    /\ client = RecipeBot_client(env_key)
    /\ \E template_ok \in BOOLEAN :
           system_prompt = _load_system_prompt(template_ok)
    /\ messages = <<>>
    /\ pc = "idle"
    /\ prompt = <<>>
    /\ conversation_history = <<>>
    /\ request = <<>>
    /\ response = <<>>
    /\ st_error = "none"
    /\ cleared = <<>>

Next ==
    \/ \E u \in SessionUtterances : Submit(u)
    \/ GetAiResponse_NoClient
    \/ GetAiResponse_Create
    \/ \E text \in BackendTexts : GetAiResponse_Success(text)
    \/ \E e \in ErrorKinds : GetAiResponse_Except(e)
    \/ AppendResponse
    \/ ClearChatHistory
    \/ \E v \in DotenvValues : EditDotenv(v)

Spec == Init /\ [][Next]_vars

\* a step of the script run in progress
ScriptStep ==
    \/ GetAiResponse_NoClient
    \/ GetAiResponse_Create
    \/ \E text \in BackendTexts : GetAiResponse_Success(text)
    \/ \E e \in ErrorKinds : GetAiResponse_Except(e)
    \/ AppendResponse

\* A started script run keeps executing, and the backend call returns or
\* raises (the client's request timeout); the user is never obliged to act.
FairSpec == Spec /\ WF_vars(ScriptStep)

----------------------------------------------------------------------------
(* _get_fallback_response on its own *)

Vocabulary ==
    {"Pasta", "SPAGHETTI", "noodles", "Chicken", "MEAT", "vegetarian", "Vegan",
     "vegetables", "DESSERT", "Sweet", "cake", "sweetmeats", "past", "weather"}

\* every utterance of at most MaxWords words of the vocabulary
BoundedUtterances == UNION {[1..n -> Vocabulary] : n \in 0..MaxWords}

FallbackInit ==
    /\ prompt \in BoundedUtterances
    /\ pc = "fallback_call"
    /\ response = <<>>
    /\ env_key = Unset
    /\ dotenv_key = Unset
    /\ client = FALSE
    /\ system_prompt = DefaultPrompt
    /\ messages = <<>>
    /\ conversation_history = <<>>
    /\ request = <<>>
    /\ st_error = "none"
    /\ cleared = <<>>

FallbackCall ==
    /\ pc = "fallback_call"
    /\ response' = _get_fallback_response(prompt)
    /\ pc' = "fallback_done"
    /\ UNCHANGED <<env_key, dotenv_key, client, system_prompt, messages,
                   prompt, conversation_history, request, st_error, cleared>>

FallbackNext == FallbackCall

FallbackSpec == FallbackInit /\ [][FallbackNext]_vars

----------------------------------------------------------------------------
(* Properties *)

CannedReplies ==
    <<PastaReply, ChickenReply, VeggieReply, DessertReply>>
KeywordSets == <<PastaWords, MeatWords, VegWords, DessertWords>>
Replies == BackendTexts \cup {CannedReplies[k] : k \in 1..4} \cup {GenericReply}

LastIs(role) == messages # <<>> /\ messages[Len(messages)].role = role

\* C1: a bot constructed without a credential returns from get_ai_response
\* with no backend request made and no error shown, and its return value is
\* _get_fallback_response(user_message), whatever the history and whatever
\* the environment holds by then.
C1_NoCredentialFallback ==
    (pc = "append" /\ ~client) =>
        /\ request = <<>>
        /\ st_error = "none"
        /\ response = _get_fallback_response(prompt)

C1_Witness ==
    /\ pc = "append"
    /\ ~client
    /\ Truthy(env_key)
    /\ Len(messages) = 3
    /\ response = ChickenReply

\* C2: when the backend call raised (any kind), get_ai_response returns
\* _get_fallback_response(user_message), the value the no-credential path
\* returns for the same message, whatever the history and the error kind.
C2_FailureFallback ==
    (pc = "append" /\ st_error # "none") =>
        /\ client
        /\ request # <<>>
        /\ response = _get_fallback_response(prompt)

C2_Witness ==
    /\ pc = "append"
    /\ st_error = "IndexError"
    /\ Len(messages) = 3
    /\ response = PastaReply

\* C3: a backend request carries the system turn first, then every turn the
\* session history held before this utterance in order, then one user turn
\* with the utterance, which is last and not repeated.
C3_RequestShape ==
    request # <<>> =>
        /\ Len(request) = Len(messages) + 1
        /\ request[1] = Turn("system", system_prompt)
        /\ \A i \in 1..Len(messages) : request[i + 1] = messages[i]
        /\ request[Len(request)] = Turn("user", prompt)
        /\ \A i \in 1..Len(request) : request[i].role = "system" <=> i = 1

C3_Witness ==
    /\ pc = "create"
    /\ Len(request) = 4
    /\ request[2].content = request[4].content

HistoryUntouchedStep ==
    pc \in {"get_ai_response", "create"} =>
        /\ conversation_history' = conversation_history
        /\ messages' = messages

\* C4: no step taken inside get_ai_response changes the history passed to
\* it nor the session's messages, on the no-credential path, the success
\* path and the failure path.
C4_HistoryUntouched ==
    [][HistoryUntouchedStep]_vars

C4_Witness ==
    /\ pc = "append"
    /\ Len(conversation_history) = 2
    /\ st_error = "RateLimitError"

\* C5: after a clear, the request built for the next utterance is exactly
\* the system turn followed by the user turn of that utterance.
C5_RequestAfterClear ==
    (request # <<>> /\ cleared # <<>>) =>
        request = <<Turn("system", system_prompt), Turn("user", prompt)>>

C5_Witness ==
    /\ request # <<>>
    /\ cleared = <<2 * MaxExchanges>>

CasePairs == {<<Upper[k], Lower[k]>> : k \in DOMAIN Upper}

SameLetter(a, b) ==
    a = b \/ <<a, b>> \in CasePairs \/ <<b, a>> \in CasePairs

OccursIgnoringCase(kw, s) ==
    \E off \in 0..Len(s) :
        /\ off + Len(kw) <= Len(s)
        /\ \A j \in 1..Len(kw) : SameLetter(s[off + j], kw[j])

MatchingSets(u) ==
    {k \in 1..4 :
        \E kw \in KeywordSets[k] : OccursIgnoringCase(Chars(kw), Text(u))}

FirstMatchReply(u) ==
    LET matching == MatchingSets(u)
    IN  IF matching = {} THEN GenericReply
        ELSE CannedReplies[CHOOSE k \in matching :
                               \A m \in matching : k <= m]

\* C6: _get_fallback_response returns the reply of the first keyword set
\* in the order pasta, meat, vegetarian, dessert that has a keyword
\* occurring in the utterance ignoring case, and the generic reply when no
\* set has one.
C6_FirstMatchWins ==
    pc = "fallback_done" => response = FirstMatchReply(prompt)

C6_Witness ==
    /\ pc = "fallback_done"
    /\ prompt = <<"sweetmeats", "SPAGHETTI">>
    /\ response = PastaReply

RunEndsWithAssistantTurn ==
    (pc # "idle" /\ pc' = "idle") =>
        /\ response \in Replies
        /\ messages' = Append(messages, Turn("assistant", response))
        /\ messages[Len(messages)] = Turn("user", prompt)

\* C7: get_ai_response always hands main a text and no exception leaves
\* it: a script run handling an utterance ends only by appending an
\* assistant turn with that text after the utterance's user turn, and every
\* such run does end.
C7_AlwaysAnswered ==
    /\ [](pc = "append" => response \in Replies)
    /\ [][RunEndsWithAssistantTurn]_vars
    /\ (pc # "idle") ~> (pc = "idle" /\ LastIs("assistant"))

C7_Witness ==
    /\ pc = "idle"
    /\ client
    /\ Len(messages) = 4
    /\ messages[4].content = GenericReply

AppendOrClearStep ==
    \/ messages' = messages
    \/ /\ Len(messages') = Len(messages) + 1
       /\ \A i \in 1..Len(messages) : messages'[i] = messages[i]
    \/ /\ messages' = <<>>
       /\ pc = "idle" /\ pc' = "idle"
       /\ cleared' = <<Len(messages)>>

\* C8: a step leaves the history as it is, appends one turn at its end, or
\* is the clear action emptying it.
C8_AppendOrClear ==
    [][AppendOrClearStep]_vars

C8_Witness ==
    /\ messages = <<>>
    /\ cleared = <<2>>
    /\ pc = "idle"

ModeFixedStep ==
    /\ client' = client
    /\ (pc = "get_ai_response" /\ pc' # pc) => (request' # <<>> <=> client)

\* C9: the mode fixed at construction never changes, and every call of
\* get_ai_response attempts the backend exactly when the bot has a client.
C9_ModeFixed ==
    [][ModeFixedStep]_vars

C9_Witness ==
    /\ client
    /\ pc = "create"
    /\ Len(messages) = 3
    /\ messages[2].content = _get_fallback_response(messages[1].content)

\* C10: with no script run in progress the history has even length, holds
\* no system turn and alternates user, assistant from a user turn.
C10_Alternation ==
    pc = "idle" =>
        /\ Len(messages) % 2 = 0
        /\ \A i \in 1..Len(messages) :
               messages[i].role = IF i % 2 = 1 THEN "user" ELSE "assistant"

C10_Witness ==
    /\ pc = "idle"
    /\ ~client
    /\ Len(messages) = 4
    /\ cleared = <<>>

====
